---- MODULE Spec2Model ----
(***************************************************************************)
(* A model of gemini_simple.py: the response cache (RESPONSE_CACHE and the *)
(* lru_cache in front of get_cached_response), the call chain              *)
(* call_gemini_api -> try_with_module -> try_fallback_with_module ->       *)
(* get_smart_fallback, and main's input loop.                              *)
(*                                                                         *)
(* A Python str is a sequence of one-character strings, so that lower(),   *)
(* strip(), startswith(), `in` and replace() are computed character by     *)
(* character.  Python's None is the one-element sequence <<"None">>, and   *)
(* an exception raised by a remote call is <<"Raise">>: neither is a str,  *)
(* because every element of a str has length one.                          *)
(***************************************************************************)
EXTENDS Integers, Sequences, FiniteSets, TLC

VARIABLES
    pc,             \* where main is: "start", "prompt", "primary", "secondary", "exited"
    api_key,        \* os.environ.get("GEMINI_API_KEY") is set (line 284)
    SHOW_DEBUG,     \* the module-level debug flag (line 26)
    RESPONSE_CACHE, \* the dictionary of line 29: normalized text -> response
    lru,            \* the memo of @lru_cache(maxsize=100) on get_cached_response,
                    \* least recently used first: <<[arg, val], ...>>
    casual_text,    \* main's casual_text after process_user_input (line 316)
    invoked,        \* this resolve's calls so far: <<[who, outcome], ...>>
    last,           \* the resolve main completed last, and how it was displayed
    writer,         \* history: the text whose resolve stored each cache key
    n_calls,        \* resolves started so far
    fb_text,        \* the argument of a stand-alone get_smart_fallback call
    fb_out          \* its result, None until it has returned

vars == <<pc, api_key, SHOW_DEBUG, RESPONSE_CACHE, lru, casual_text, invoked,
          last, writer, n_calls, fb_text, fb_out>>

orch_vars == <<pc, api_key, SHOW_DEBUG, RESPONSE_CACHE, lru, casual_text, invoked,
               last, writer, n_calls>>

---------------------------------------------------------------------------
(* Bounds *)

\* resolves (call_gemini_api calls) in one run of main
MaxCalls == 3

\* fragments concatenated into one argument of a stand-alone get_smart_fallback call
MaxParts == 2

---------------------------------------------------------------------------
(* Python values *)

None == <<"None">>

Raise == <<"Raise">>

\* bool(v) for v a str or None
Truthy(v) == v # None /\ v # <<>>

UpperCase == <<"A","B","C","D","E","F","G","H","I","J","K","L","M","N","O","P","Q","R","S","T","U","V","W","X","Y","Z">>

LowerCase == <<"a","b","c","d","e","f","g","h","i","j","k","l","m","n","o","p","q","r","s","t","u","v","w","x","y","z">>

Whitespace == {" ", "\t", "\n"}

\* str.lower() on one character
LowerChar(c) ==
    IF \E i \in 1..26 : UpperCase[i] = c
    THEN LowerCase[CHOOSE i \in 1..26 : UpperCase[i] = c]
    ELSE c

\* str.lower()
Lower(s) == [i \in 1..Len(s) |-> LowerChar(s[i])]

\* s[n:]
Drop(s, n) == IF n >= Len(s) THEN <<>> ELSE SubSeq(s, n + 1, Len(s))

RECURSIVE LStrip(_)
\* str.lstrip()
LStrip(s) == IF s # <<>> /\ Head(s) \in Whitespace THEN LStrip(Tail(s)) ELSE s

RECURSIVE RStrip(_)
\* str.rstrip()
RStrip(s) ==
    IF s # <<>> /\ s[Len(s)] \in Whitespace THEN RStrip(SubSeq(s, 1, Len(s) - 1)) ELSE s

\* str.strip()
Strip(s) == RStrip(LStrip(s))

RECURSIVE LStripColon(_)
\* str.lstrip(':')
LStripColon(s) == IF s # <<>> /\ Head(s) = ":" THEN LStripColon(Tail(s)) ELSE s

\* s.startswith(p)
StartsWith(s, p) == Len(p) <= Len(s) /\ SubSeq(s, 1, Len(p)) = p

\* sub in s
Contains(s, sub) == \E i \in 0..(Len(s) - Len(sub)) : SubSeq(s, i + 1, i + Len(sub)) = sub

RECURSIVE Remove(_, _)
\* s.replace(old, '') for a non-empty old: every non-overlapping occurrence,
\* scanning from the left
Remove(s, old) ==
    IF s = <<>> THEN <<>>
    ELSE IF StartsWith(s, old) THEN Remove(Drop(s, Len(old)), old)
    ELSE <<Head(s)>> \o Remove(Tail(s), old)

\* a faulty Normalize: the .lower() is left out
Normalize_nolower(text) == Strip(text)

\* text.lower().strip(): the key of the cache and of the lookup tables
Normalize(text) == Strip(Lower(text))

---------------------------------------------------------------------------
(* Lookup tables *)

\* in insertion order, which is the order `for key, responses in ....items()` visits
COMMON_TRANSFORMATIONS ==
    << [key |-> <<"p","l","e","a","s","e"," ","s","h","a","r","e"," ","y","o","u","r"," ","t","h","o","u","g","h","t","s">>,
        responses |-> << <<"I"," ","w","o","u","l","d"," ","a","p","p","r","e","c","i","a","t","e"," ","y","o","u","r"," ","i","n","s","i","g","h","t","s"," ","o","n"," ","t","h","i","s"," ","m","a","t","t","e","r",".">>,
                         <<"C","o","u","l","d"," ","y","o","u"," ","p","l","e","a","s","e"," ","p","r","o","v","i","d","e"," ","y","o","u","r"," ","p","e","r","s","p","e","c","t","i","v","e"," ","o","n"," ","t","h","i","s"," ","t","o","p","i","c","?">>,
                         <<"Y","o","u","r"," ","i","n","p","u","t"," ","w","o","u","l","d"," ","b","e"," ","v","a","l","u","a","b","l","e"," ","i","n"," ","t","h","i","s"," ","d","i","s","c","u","s","s","i","o","n",".">>,
                         <<"I"," ","w","e","l","c","o","m","e"," ","y","o","u","r"," ","f","e","e","d","b","a","c","k"," ","o","n"," ","t","h","i","s"," ","s","u","b","j","e","c","t",".">> >>],
       [key |-> <<"w","h","a","t"," ","d","o"," ","y","o","u"," ","t","h","i","n","k">>,
        responses |-> << <<"W","h","a","t"," ","a","r","e"," ","y","o","u","r"," ","t","h","o","u","g","h","t","s"," ","o","n"," ","t","h","i","s","?">>,
                         <<"I","'","d"," ","a","p","p","r","e","c","i","a","t","e"," ","y","o","u","r"," ","p","e","r","s","p","e","c","t","i","v","e"," ","o","n"," ","t","h","i","s"," ","m","a","t","t","e","r",".">>,
                         <<"M","a","y"," ","I"," ","a","s","k"," ","f","o","r"," ","y","o","u","r"," ","p","r","o","f","e","s","s","i","o","n","a","l"," ","o","p","i","n","i","o","n"," ","o","n"," ","t","h","i","s","?">> >>],
       [key |-> <<"i"," ","d","o","n","'","t"," ","l","i","k","e"," ","t","h","i","s">>,
        responses |-> << <<"I"," ","h","a","v","e"," ","s","o","m","e"," ","c","o","n","c","e","r","n","s"," ","a","b","o","u","t"," ","t","h","i","s"," ","a","p","p","r","o","a","c","h",".">>,
                         <<"I","'","d"," ","l","i","k","e"," ","t","o"," ","s","u","g","g","e","s","t"," ","a","n"," ","a","l","t","e","r","n","a","t","i","v","e"," ","s","o","l","u","t","i","o","n",".">>,
                         <<"T","h","i","s"," ","a","p","p","r","o","a","c","h"," ","m","a","y"," ","b","e","n","e","f","i","t"," ","f","r","o","m"," ","s","o","m","e"," ","a","d","j","u","s","t","m","e","n","t","s",".">> >>],
       [key |-> <<"t","h","i","s"," ","i","s"," ","s","t","u","p","i","d">>,
        responses |-> << <<"I"," ","b","e","l","i","e","v","e"," ","t","h","i","s"," ","a","p","p","r","o","a","c","h"," ","c","o","u","l","d"," ","b","e"," ","r","e","c","o","n","s","i","d","e","r","e","d",".">>,
                         <<"I"," ","h","a","v","e"," ","s","o","m","e"," ","r","e","s","e","r","v","a","t","i","o","n","s"," ","a","b","o","u","t"," ","t","h","e"," ","e","f","f","e","c","t","i","v","e","n","e","s","s"," ","o","f"," ","t","h","i","s"," ","s","t","r","a","t","e","g","y",".">>,
                         <<"T","h","i","s"," ","s","o","l","u","t","i","o","n"," ","m","i","g","h","t"," ","n","o","t"," ","b","e"," ","o","p","t","i","m","a","l"," ","f","o","r"," ","o","u","r"," ","o","b","j","e","c","t","i","v","e","s",".">> >>],
       [key |-> <<"i","'","m"," ","a","n","g","r","y"," ","a","b","o","u","t">>,
        responses |-> << <<"I","'","m"," ","c","o","n","c","e","r","n","e","d"," ","a","b","o","u","t">>,
                         <<"I"," ","f","e","e","l"," ","s","t","r","o","n","g","l","y"," ","r","e","g","a","r","d","i","n","g">>,
                         <<"I","'","d"," ","l","i","k","e"," ","t","o"," ","a","d","d","r","e","s","s"," ","m","y"," ","c","o","n","c","e","r","n","s"," ","a","b","o","u","t">> >>],
       [key |-> <<"t","h","a","t","'","s"," ","n","o","t"," ","m","y"," ","j","o","b">>,
        responses |-> << <<"T","h","i","s"," ","f","a","l","l","s"," ","o","u","t","s","i","d","e"," ","m","y"," ","c","u","r","r","e","n","t"," ","r","e","s","p","o","n","s","i","b","i","l","i","t","i","e","s",".">>,
                         <<"T","h","i","s"," ","m","a","y"," ","r","e","q","u","i","r","e"," ","e","x","p","e","r","t","i","s","e"," ","f","r","o","m"," ","a","n","o","t","h","e","r"," ","d","e","p","a","r","t","m","e","n","t",".">>,
                         <<"T","h","i","s"," ","t","a","s","k"," ","m","i","g","h","t"," ","a","l","i","g","n"," ","b","e","t","t","e","r"," ","w","i","t","h"," ","a"," ","d","i","f","f","e","r","e","n","t"," ","t","e","a","m","'","s"," ","o","b","j","e","c","t","i","v","e","s",".">> >>],
       [key |-> <<"i"," ","q","u","i","t">>,
        responses |-> << <<"I"," ","w","o","u","l","d"," ","l","i","k","e"," ","t","o"," ","t","e","n","d","e","r"," ","m","y"," ","r","e","s","i","g","n","a","t","i","o","n",".">>,
                         <<"I","'","v","e"," ","d","e","c","i","d","e","d"," ","t","o"," ","p","u","r","s","u","e"," ","o","p","p","o","r","t","u","n","i","t","i","e","s"," ","e","l","s","e","w","h","e","r","e",".">>,
                         <<"I"," ","a","m"," ","g","i","v","i","n","g"," ","m","y"," ","n","o","t","i","c","e"," ","o","f"," ","r","e","s","i","g","n","a","t","i","o","n",".">> >>] >>

INFO_FALLBACKS ==
    << [prefix |-> <<"w","h","a","t"," ","i","s">>,  replacement |-> <<"I","'","m"," ","i","n","q","u","i","r","i","n","g"," ","a","b","o","u","t">>],
       [prefix |-> <<"w","h","o"," ","i","s">>,   replacement |-> <<"I","'","m"," ","s","e","e","k","i","n","g"," ","i","n","f","o","r","m","a","t","i","o","n"," ","r","e","g","a","r","d","i","n","g">>],
       [prefix |-> <<"w","h","e","r","e"," ","i","s">>, replacement |-> <<"C","o","u","l","d"," ","y","o","u"," ","p","r","o","v","i","d","e"," ","i","n","f","o","r","m","a","t","i","o","n"," ","o","n"," ","t","h","e"," ","l","o","c","a","t","i","o","n"," ","o","f">>],
       [prefix |-> <<"w","h","e","n"," ","i","s">>,  replacement |-> <<"I","'","d"," ","l","i","k","e"," ","t","o"," ","k","n","o","w"," ","t","h","e"," ","t","i","m","i","n","g"," ","o","f">>],
       [prefix |-> <<"w","h","y"," ","i","s">>,   replacement |-> <<"I","'","m"," ","i","n","t","e","r","e","s","t","e","d"," ","i","n"," ","u","n","d","e","r","s","t","a","n","d","i","n","g"," ","t","h","e"," ","r","e","a","s","o","n"," ","b","e","h","i","n","d">>],
       [prefix |-> <<"h","o","w"," ","t","o">>,   replacement |-> <<"C","o","u","l","d"," ","y","o","u"," ","p","r","o","v","i","d","e"," ","g","u","i","d","a","n","c","e"," ","o","n"," ","h","o","w"," ","t","o">>] >>

REQUEST_WORDS == << <<"i"," ","n","e","e","d">>, <<"i"," ","w","a","n","t">>, <<"g","i","v","e"," ","m","e">> >>

NEGATIVE_WORDS == << <<"n","o","t"," ","g","o","o","d">>, <<"b","a","d">>, <<"t","e","r","r","i","b","l","e">>, <<"a","w","f","u","l">> >>

---------------------------------------------------------------------------
(* get_smart_fallback *)

\* random.choice(seq): every element is a possible result
random_choice(seq) == {seq[i] : i \in 1..Len(seq)}

\* any(word in text_lower for word in words)
AnyIn(words, text_lower) == \E i \in 1..Len(words) : Contains(text_lower, words[i])

RECURSIVE RemoveAll(_, _)
\* text_lower.replace(words[1], '').replace(words[2], '')...
RemoveAll(s, words) ==
    IF words = <<>> THEN s ELSE RemoveAll(Remove(s, Head(words)), Tail(words))

\* a faulty FirstMatch: the loop keeps going and the last match decides
LastMatch(S) == CHOOSE i \in S : \A j \in S : j <= i

\* the entry at which a `for` loop over a table returns: of the entries S whose
\* `if` holds, the first in the table's order
FirstMatch(S) == CHOOSE i \in S : \A j \in S : i <= j

\* the condition of the partial-match loop's `if` for one key
PartialMatch(key, text_lower) == Contains(text_lower, key) \/ Contains(key, text_lower)

\* f"{replacement} {text[len(prefix):].strip()}."
PrefixRule(text, p) == p.replacement \o <<" ">> \o Strip(Drop(text, Len(p.prefix))) \o <<".">>

\* a faulty RequestRule: the lead-in and the full stop are left out
RequestRule_bare(text_lower) == Strip(RemoveAll(text_lower, REQUEST_WORDS))

\* f"I would like to request {text_lower.replace(...)...strip()}."
RequestRule(text_lower) ==
    <<"I"," ","w","o","u","l","d"," ","l","i","k","e"," ","t","o"," ","r","e","q","u","e","s","t"," ">> \o Strip(RemoveAll(text_lower, REQUEST_WORDS)) \o <<".">>

\* f"I believe there may be room for improvement regarding {...strip()}."
NegativeRule(text_lower) ==
    <<"I"," ","b","e","l","i","e","v","e"," ","t","h","e","r","e"," ","m","a","y"," ","b","e"," ","r","o","o","m"," ","f","o","r"," ","i","m","p","r","o","v","e","m","e","n","t"," ","r","e","g","a","r","d","i","n","g"," ">>
        \o Strip(RemoveAll(text_lower, NEGATIVE_WORDS)) \o <<".">>

\* f"I would appreciate your insights on {text}"
QuestionRule(text) == <<"I"," ","w","o","u","l","d"," ","a","p","p","r","e","c","i","a","t","e"," ","y","o","u","r"," ","i","n","s","i","g","h","t","s"," ","o","n"," ">> \o text

\* f"I would like to professionally communicate: {text}"
GenericRule(text) == <<"I"," ","w","o","u","l","d"," ","l","i","k","e"," ","t","o"," ","p","r","o","f","e","s","s","i","o","n","a","l","l","y"," ","c","o","m","m","u","n","i","c","a","t","e",":"," ">> \o text

\* a faulty get_smart_fallback: the negative-sentiment test is made before the
\* request-phrase test
get_smart_fallback_negative_first(text) ==
    LET text_lower == Normalize(text)
        T == COMMON_TRANSFORMATIONS
        I == INFO_FALLBACKS
        exact == {i \in 1..Len(T) : T[i].key = text_lower}
        partial == {i \in 1..Len(T) : PartialMatch(T[i].key, text_lower)}
        prefixes == {i \in 1..Len(I) : StartsWith(text_lower, I[i].prefix)}
    IN  IF exact # {} THEN random_choice(T[FirstMatch(exact)].responses)
        ELSE IF partial # {} THEN random_choice(T[FirstMatch(partial)].responses)
        ELSE IF prefixes # {} THEN {PrefixRule(text, I[FirstMatch(prefixes)])}
        ELSE IF AnyIn(NEGATIVE_WORDS, text_lower) THEN {NegativeRule(text_lower)}
        ELSE IF AnyIn(REQUEST_WORDS, text_lower) THEN {RequestRule(text_lower)}
        ELSE IF Contains(text, <<"?">>) THEN {QuestionRule(text)}
        ELSE {GenericRule(text)}

\* the results get_smart_fallback(text) can return, one per outcome of
\* random.choice; the first rule whose condition holds decides
get_smart_fallback(text) ==
    LET text_lower == Normalize(text)
        T == COMMON_TRANSFORMATIONS
        I == INFO_FALLBACKS
        exact == {i \in 1..Len(T) : T[i].key = text_lower}
        partial == {i \in 1..Len(T) : PartialMatch(T[i].key, text_lower)}
        prefixes == {i \in 1..Len(I) : StartsWith(text_lower, I[i].prefix)}
    IN  IF exact # {} THEN random_choice(T[FirstMatch(exact)].responses)
        ELSE IF partial # {} THEN random_choice(T[FirstMatch(partial)].responses)
        ELSE IF prefixes # {} THEN {PrefixRule(text, I[FirstMatch(prefixes)])}
        ELSE IF AnyIn(REQUEST_WORDS, text_lower) THEN {RequestRule(text_lower)}
        ELSE IF AnyIn(NEGATIVE_WORDS, text_lower) THEN {NegativeRule(text_lower)}
        ELSE IF Contains(text, <<"?">>) THEN {QuestionRule(text)}
        ELSE {GenericRule(text)}

---------------------------------------------------------------------------
(* The response cache *)

\* maxsize of @lru_cache on get_cached_response
LRU_MAXSIZE == 100

\* {}
EmptyDict == [k \in {} |-> None]

\* RESPONSE_CACHE.get(key)
dict_get(cache, key) == IF key \in DOMAIN cache THEN cache[key] ELSE None

\* the position of `text` in the memo, 0 when it holds no entry for it
lru_find(memo, text) ==
    IF \E i \in 1..Len(memo) : memo[i].arg = text
    THEN CHOOSE i \in 1..Len(memo) : memo[i].arg = text
    ELSE 0

\* the value get_cached_response(text) returns: the memoized one when the
\* lru_cache holds the argument, else the body's RESPONSE_CACHE.get(...)
get_cached_response(memo, cache, text) ==
    IF lru_find(memo, text) # 0
    THEN memo[lru_find(memo, text)].val
    ELSE dict_get(cache, Normalize(text))

\* the memo after get_cached_response(text): a hit moves the entry to the most
\* recently used end, a miss stores the body's result and, when the memo is
\* full, drops the least recently used entry
lru_after(memo, cache, text) ==
    LET i == lru_find(memo, text)
        entry == [arg |-> text, val |-> dict_get(cache, Normalize(text))]
    IN  IF i # 0
        THEN SubSeq(memo, 1, i - 1) \o SubSeq(memo, i + 1, Len(memo)) \o <<memo[i]>>
        ELSE Append(IF Len(memo) >= LRU_MAXSIZE THEN Tail(memo) ELSE memo, entry)

\* a faulty save_to_cache: the dictionary is replaced, not updated
save_to_cache_replace(cache, text, response) ==
    [k \in {Normalize(text)} |-> response]

\* a faulty save_to_cache: the key is the text as given
save_to_cache_rawkey(cache, text, response) ==
    [k \in DOMAIN cache \cup {text} |-> IF k = text THEN response ELSE cache[k]]

\* RESPONSE_CACHE[text.lower().strip()] = response
save_to_cache(cache, text, response) ==
    [k \in DOMAIN cache \cup {Normalize(text)} |->
        IF k = Normalize(text) THEN response ELSE cache[k]]

---------------------------------------------------------------------------
(* The remote models *)

PRIMARY == "gemini-2.0-flash"

SECONDARY == "gemini-pro"

FALLBACK == "get_smart_fallback"

\* what model.generate_content(prompt) followed by response.text can yield:
\* an exception, or a text (empty, whitespace only, bare, or padded)
RemoteOutcomes == {Raise, <<>>, <<" ">>, <<"X">>, <<" ","Y"," ">>}

\* a faulty try_with_module: the `return response.text.strip()` is missing, so
\* a non-empty answer falls through to the secondary model as well
try_with_module_fallthrough(o) == "secondary"

\* try_with_module after the primary call: "return" response.text.strip(),
\* or go on to try_fallback_with_module (the else branch and the except clause)
try_with_module(o) ==
    IF o = Raise THEN "secondary"
    ELSE IF Truthy(o) THEN "return"
    ELSE "secondary"

\* a faulty try_fallback_with_module: no except clause around the call
try_fallback_with_module_uncaught(o) ==
    IF o = Raise THEN "propagate"
    ELSE IF Truthy(o) THEN "return"
    ELSE "fallback"

\* try_fallback_with_module after the secondary call: "return"
\* response.text.strip(), or go on to get_smart_fallback
try_fallback_with_module(o) ==
    IF o = Raise THEN "fallback"
    ELSE IF Truthy(o) THEN "return"
    ELSE "fallback"

---------------------------------------------------------------------------
(* main *)

ExitWords == {<<"e","x","i","t">>, <<"q","u","i","t">>, <<"q">>}

\* the lines Prompt.ask hands to main
Lines == {<<>>, <<":",":",":",":">>, <<"Q">>, <<"d","e","b","u","g">>, <<"o","k","?">>, <<"O","K","?">>, <<":"," ","o","k","?">>}

process_user_input(text) ==
    IF StartsWith(text, <<":">>) THEN Strip(LStripColon(text)) ELSE text

NoResolve ==
    [text |-> None, result |-> None, source |-> "none", invoked |-> <<>>,
     cache_before |-> EmptyDict, writer_before |-> EmptyDict,
     shown |-> None, branch |-> "none"]

\* what main displays for a returned professional_text: the text itself
\* through format_output, or, when it is falsy, a get_smart_fallback text under
\* the "Using smart fallback transformation:" label
Display(text, professional_text) ==
    IF Truthy(professional_text)
    THEN {[shown |-> professional_text, branch |-> "plain"]}
    ELSE {[shown |-> s, branch |-> "smart_fallback"] : s \in get_smart_fallback(text)}

\* call_gemini_api returns `response` to main, which displays it; `source`
\* names the return statement that produced it and `log` the calls made
Return(response, source, log) ==
    \E d \in Display(casual_text', response) :
        /\ last' = [text |-> casual_text', result |-> response, source |-> source,
                    invoked |-> log,
                    cache_before |-> RESPONSE_CACHE, writer_before |-> writer,
                    shown |-> d.shown, branch |-> d.branch]
        /\ invoked' = <<>>
        /\ pc' = "prompt"

\* the tail of call_gemini_api: `if response: save_to_cache(text, response)`
\* and `return response`
call_gemini_api_tail(response, source, log) ==
    /\ IF Truthy(response)
       THEN /\ RESPONSE_CACHE' = save_to_cache(RESPONSE_CACHE, casual_text, response)
            /\ writer' = save_to_cache(writer, casual_text, casual_text)
       ELSE UNCHANGED <<RESPONSE_CACHE, writer>>
    /\ UNCHANGED casual_text
    /\ Return(response, source, log)

\* a faulty cached_return: the `return cached` is missing and the call goes on
\* to the primary model
cached_return_fallthrough(cached) ==
    /\ pc' = "primary"
    /\ invoked' = <<>>
    /\ UNCHANGED <<RESPONSE_CACHE, writer, last>>

\* call_gemini_api's `if cached: return cached`
cached_return(cached) ==
    /\ UNCHANGED <<RESPONSE_CACHE, writer>>
    /\ Return(cached, "cache", <<>>)

\* an exception leaves call_gemini_api: main's `except Exception` displays a
\* get_smart_fallback text under the label
main_except(log) ==
    /\ UNCHANGED <<RESPONSE_CACHE, writer, casual_text>>
    /\ \E s \in get_smart_fallback(casual_text) :
        /\ last' = [text |-> casual_text, result |-> Raise, source |-> "exception",
                    invoked |-> log,
                    cache_before |-> RESPONSE_CACHE, writer_before |-> writer,
                    shown |-> s, branch |-> "smart_fallback"]
        /\ invoked' = <<>>
        /\ pc' = "prompt"

\* main before its loop: without an API key it returns
main_start ==
    /\ pc = "start"
    /\ pc' = IF api_key THEN "prompt" ELSE "exited"
    /\ UNCHANGED <<api_key, SHOW_DEBUG, RESPONSE_CACHE, lru, casual_text, invoked,
                   last, writer, n_calls, fb_text, fb_out>>

\* one pass of the loop for the line read, up to the return of a cache hit or
\* to the primary model's call
main_prompt(line) ==
    /\ pc = "prompt"
    /\ UNCHANGED <<api_key, fb_text, fb_out>>
    /\ IF Lower(line) \in ExitWords
       THEN /\ pc' = "exited"
            /\ UNCHANGED <<SHOW_DEBUG, RESPONSE_CACHE, lru, casual_text, invoked,
                           last, writer, n_calls>>
       ELSE IF Lower(line) = <<"d","e","b","u","g">>
       THEN /\ SHOW_DEBUG' = ~SHOW_DEBUG
            /\ UNCHANGED <<pc, RESPONSE_CACHE, lru, casual_text, invoked,
                           last, writer, n_calls>>
       ELSE IF ~Truthy(line)
       THEN UNCHANGED orch_vars
       ELSE /\ n_calls < MaxCalls
            /\ n_calls' = n_calls + 1
            /\ casual_text' = process_user_input(line)
            /\ lru' = lru_after(lru, RESPONSE_CACHE, casual_text')
            /\ UNCHANGED SHOW_DEBUG
            /\ LET cached == get_cached_response(lru, RESPONSE_CACHE, casual_text')
               IN  IF Truthy(cached)
                   THEN cached_return(cached)
                   ELSE /\ pc' = "primary"
                        /\ invoked' = <<>>
                        /\ UNCHANGED <<RESPONSE_CACHE, writer, last>>

\* the primary model's call ends with outcome o
primary_returns(o) ==
    /\ pc = "primary"
    /\ UNCHANGED <<api_key, SHOW_DEBUG, lru, n_calls, fb_text, fb_out>>
    /\ LET log == Append(invoked, [who |-> PRIMARY, outcome |-> o])
           next == try_with_module(o)
       IN  IF next = "return"
           THEN call_gemini_api_tail(Strip(o), "primary", log)
           ELSE IF next = "secondary"
           THEN /\ pc' = "secondary"
                /\ invoked' = log
                /\ UNCHANGED <<RESPONSE_CACHE, writer, casual_text, last>>
           ELSE main_except(log)

\* the secondary model's call ends with outcome o.  The call made from the
\* primary's else branch (line 204) is inside try_with_module's try block, so
\* an exception leaving try_fallback_with_module there would be caught at
\* line 206 and the secondary model called again from line 211
secondary_returns(o) ==
    /\ pc = "secondary"
    /\ UNCHANGED <<api_key, SHOW_DEBUG, lru, n_calls, fb_text, fb_out>>
    /\ LET log == Append(invoked, [who |-> SECONDARY, outcome |-> o])
           next == try_fallback_with_module(o)
           in_try == Len(invoked) = 1 /\ invoked[1].outcome # Raise
       IN  IF next = "return"
           THEN call_gemini_api_tail(Strip(o), "secondary", log)
           ELSE IF next = "fallback"
           THEN \E f \in get_smart_fallback(casual_text) :
                    call_gemini_api_tail(f, "fallback",
                                         Append(log, [who |-> FALLBACK, outcome |-> f]))
           ELSE IF in_try
           THEN /\ pc' = "secondary"
                /\ invoked' = log
                /\ UNCHANGED <<RESPONSE_CACHE, writer, casual_text, last>>
           ELSE main_except(log)

\* a stand-alone call get_smart_fallback(fb_text)
fallback_call ==
    /\ fb_out = None
    /\ fb_out' \in get_smart_fallback(fb_text)
    /\ UNCHANGED <<fb_text, orch_vars>>

---------------------------------------------------------------------------
(* Specifications *)

OrchInit ==
    /\ pc = "start"
    /\ api_key \in BOOLEAN
    /\ SHOW_DEBUG = FALSE
    /\ RESPONSE_CACHE = EmptyDict
    /\ lru = <<>>
    /\ casual_text = None
    /\ invoked = <<>>
    /\ last = NoResolve
    /\ writer = EmptyDict
    /\ n_calls = 0

Init ==
    /\ OrchInit
    /\ fb_text = None
    /\ fb_out = None

Next ==
    \/ main_start
    \/ \E line \in Lines : main_prompt(line)
    \/ \E o \in RemoteOutcomes : primary_returns(o)
    \/ \E o \in RemoteOutcomes : secondary_returns(o)

Spec == Init /\ [][Next]_vars

\* the texts a stand-alone get_smart_fallback call is given: up to MaxParts
\* fragments, concatenated
Fragments ==
    {<<"i"," ","q","u","i","t">>, <<"I"," ","Q","U","I","T">>, <<" ">>, <<"W","h","a","t"," ","i","s">>, <<"h","o","w"," ","t","o">>, <<"I"," ","n","e","e","d">>, <<"g","i","v","e"," ","m","e">>,
     <<"b","a","d">>, <<"A","w","f","u","l">>, <<"?">>, <<"x">>, <<"t","h","i","s"," ","i","s"," ","s","t","u","p","i","d">>}

RECURSIVE Concats(_)
Concats(n) ==
    IF n = 0 THEN {<<>>}
    ELSE Concats(n - 1) \cup {s \o f : s \in Concats(n - 1), f \in Fragments}

FallbackInputs == Concats(MaxParts)

FallbackInit ==
    /\ OrchInit
    /\ fb_text \in FallbackInputs
    /\ fb_out = None

FallbackNext == fallback_call

SpecFallback == FallbackInit /\ [][FallbackNext]_vars

---------------------------------------------------------------------------
(* Properties *)

\* a resolve has completed and `last` describes it
Resolved == last.text # None

\* the texts a remote model can have produced, as call_gemini_api returns them
RemoteTexts == {Strip(o) : o \in RemoteOutcomes \ {Raise}}

\* C1: idempotent caching.  When the resolve completed last got a non-empty
\* text from the primary or the secondary model and the next resolve is for
\* the same string, that resolve returns the same text from the cache lookup
\* and calls no remote model.
C1_IdempotentCaching ==
    [][(/\ pc = "prompt"
        /\ n_calls' = n_calls + 1
        /\ casual_text' = last.text
        /\ last.source \in {"primary", "secondary"}
        /\ Truthy(last.result))
       => (/\ pc' = "prompt"
           /\ last'.source = "cache"
           /\ last'.invoked = <<>>
           /\ last'.result = last.result)]_vars

\* C2: a result of get_smart_fallback is never written to RESPONSE_CACHE.
\* Every cached value was returned by a remote model, and a resolve that ends
\* in the fallback leaves RESPONSE_CACHE as it was.
C2_FallbackNotCached ==
    /\ \A k \in DOMAIN RESPONSE_CACHE : RESPONSE_CACHE[k] \in RemoteTexts
    /\ last.source = "fallback" => RESPONSE_CACHE = last.cache_before

\* C3: normalization equivalence.  When a resolve of one string has stored a
\* result, a resolve of another string with the same lowercase+trim returns
\* the stored result from the cache and calls no remote model.
C3_NormalizationEquivalence ==
    LET key == Normalize(last.text)
    IN  (/\ Resolved
         /\ key \in DOMAIN last.cache_before
         /\ last.writer_before[key] # last.text)
        => (/\ last.source = "cache"
            /\ last.invoked = <<>>
            /\ last.result = last.cache_before[key])

\* C4: main displays every text that came from get_smart_fallback through the
\* branch that labels it as a fallback transformation, and nothing else
\* through that branch.
C4_FallbackLabelled ==
    /\ last.source = "fallback" => last.branch = "smart_fallback"
    /\ last.branch = "smart_fallback" => last.shown \in get_smart_fallback(last.text)

\* an outcome after which the next stage is tried
Failed(o) == o = Raise \/ o = <<>>

\* the calls of one resolve are a prefix of primary, secondary, fallback, each
\* stage after the first entered only when the one before it failed
InOrder(log) ==
    /\ Len(log) <= 3
    /\ \A i \in 1..Len(log) : log[i].who = <<PRIMARY, SECONDARY, FALLBACK>>[i]
    /\ \A i \in 2..Len(log) : Failed(log[i - 1].outcome)

\* C5: a resolve that misses the cache calls the primary model first and each
\* model at most once; it calls the secondary model only after the primary
\* call raised or returned empty, and get_smart_fallback only after both did.
C5_CallOrder ==
    /\ InOrder(invoked)
    /\ InOrder(last.invoked)
    /\ pc = "primary" => invoked = <<>>
    /\ pc = "secondary" => Len(invoked) = 1
    /\ (Resolved /\ last.source # "cache") => Len(last.invoked) >= 1

C5_Witness ==
    /\ Len(last.invoked) = 3
    /\ last.invoked[1].outcome = Raise
    /\ last.invoked[2].outcome = <<>>
    /\ last.source = "fallback"

\* C6: a resolve returns straight after the primary call only when that call
\* gave a text that is non-empty once trimmed; after an exception, an empty
\* text or a whitespace-only text the secondary model is called first.
C6_SecondaryUnlessText ==
    (/\ Resolved
     /\ last.source # "cache"
     /\ \/ last.invoked[1].outcome = Raise
        \/ ~Truthy(Strip(last.invoked[1].outcome)))
    => (Len(last.invoked) >= 2 /\ last.invoked[2].who = SECONDARY)

\* in `log`, every call that raised is followed by the next stage
RaiseAdvances(log) ==
    \A i \in 1..Len(log) :
        log[i].outcome = Raise
        => /\ i < Len(log)
           /\ log[i].who = PRIMARY => log[i + 1].who = SECONDARY
           /\ log[i].who = SECONDARY => log[i + 1].who = FALLBACK

\* C7: no exception of a remote call leaves call_gemini_api.  A raising
\* primary call is followed by the secondary call, a raising secondary call by
\* get_smart_fallback, and main's except clause is never entered.
C7_NoExceptionEscapes ==
    /\ last.source # "exception"
    /\ last.result # Raise
    /\ RaiseAdvances(last.invoked)
    /\ (invoked # <<>> /\ invoked[Len(invoked)].outcome = Raise)
       => (pc = "secondary" /\ Len(invoked) = 1)

C7_Witness ==
    /\ Len(last.invoked) = 3
    /\ last.invoked[1].outcome = Raise
    /\ last.invoked[2].outcome = Raise
    /\ last.result \in get_smart_fallback(last.text)

\* C8: call_gemini_api returns a non-empty text, whatever the remote models do.
C8_ResultNonEmpty == Resolved => Truthy(last.result)

\* C9: the text main passes to call_gemini_api and get_smart_fallback is
\* non-empty once trimmed.
C9_CoreTextNonEmpty == casual_text # None => Strip(casual_text) # <<>>

\* C10: for a non-empty text, get_smart_fallback returns, and what it returns
\* is a non-empty string.
C10_FallbackTotal ==
    fb_text # <<>>
    => /\ get_smart_fallback(fb_text) # {}
       /\ fb_out # None => fb_out # <<>>

C10_Witness ==
    /\ fb_text = <<"I"," ","n","e","e","d">>
    /\ fb_out = <<"I"," ","w","o","u","l","d"," ","l","i","k","e"," ","t","o"," ","r","e","q","u","e","s","t"," ",".">>

\* the alternatives listed under entry i of COMMON_TRANSFORMATIONS
Alternatives(i) ==
    {COMMON_TRANSFORMATIONS[i].responses[j] :
        j \in 1..Len(COMMON_TRANSFORMATIONS[i].responses)}

\* the entries of COMMON_TRANSFORMATIONS whose key is the lowercase+trim of t
ExactKeys(t) ==
    {i \in 1..Len(COMMON_TRANSFORMATIONS) :
        COMMON_TRANSFORMATIONS[i].key = Strip(Lower(t))}

\* C11: when the lowercase+trim of the text is a key of
\* COMMON_TRANSFORMATIONS, get_smart_fallback returns one of the alternatives
\* listed under that key, whatever random.choice picks.
C11_ExactAlternatives ==
    \A i \in ExactKeys(fb_text) :
        /\ get_smart_fallback(fb_text) \subseteq Alternatives(i)
        /\ fb_out # None => fb_out \in Alternatives(i)

C11_Witness ==
    /\ fb_text = <<" ","I"," ","Q","U","I","T">>
    /\ fb_out = <<"I"," ","a","m"," ","g","i","v","i","n","g"," ","m","y"," ","n","o","t","i","c","e"," ","o","f"," ","r","e","s","i","g","n","a","t","i","o","n",".">>

\* the entries of COMMON_TRANSFORMATIONS that partially match t: the key is in
\* the lowercase+trim of t, or the other way round
PartialKeys(t) ==
    {i \in 1..Len(COMMON_TRANSFORMATIONS) :
        \/ Contains(Strip(Lower(t)), COMMON_TRANSFORMATIONS[i].key)
        \/ Contains(COMMON_TRANSFORMATIONS[i].key, Strip(Lower(t)))}

\* the entries of INFO_FALLBACKS whose prefix starts the lowercase+trim of t
PrefixKeys(t) ==
    {i \in 1..Len(INFO_FALLBACKS) :
        StartsWith(Strip(Lower(t)), INFO_FALLBACKS[i].prefix)}

\* some word of `words` is in the lowercase+trim of t
HasWord(words, t) == \E i \in 1..Len(words) : Contains(Strip(Lower(t)), words[i])

\* the rank of the first rule whose condition holds for t: 1 exact match,
\* 2 partial match, 3 prefix, 4 request phrase, 5 negative sentiment,
\* 6 question mark, 7 generic
FirstRule(t) ==
    IF ExactKeys(t) # {} THEN 1
    ELSE IF PartialKeys(t) # {} THEN 2
    ELSE IF PrefixKeys(t) # {} THEN 3
    ELSE IF HasWord(REQUEST_WORDS, t) THEN 4
    ELSE IF HasWord(NEGATIVE_WORDS, t) THEN 5
    ELSE IF \E i \in 1..Len(t) : t[i] = "?" THEN 6
    ELSE 7

\* what rule r alone produces for t
RuleOutputs(r, t) ==
    CASE r = 1 -> UNION {Alternatives(i) : i \in ExactKeys(t)}
      [] r = 2 -> UNION {Alternatives(i) : i \in PartialKeys(t)}
      [] r = 3 -> {PrefixRule(t, INFO_FALLBACKS[i]) : i \in PrefixKeys(t)}
      [] r = 4 -> {RequestRule(Strip(Lower(t)))}
      [] r = 5 -> {NegativeRule(Strip(Lower(t)))}
      [] r = 6 -> {QuestionRule(t)}
      [] r = 7 -> {GenericRule(t)}

\* C12: get_smart_fallback applies its rules in the order exact match, partial
\* match, prefix, request phrase, negative sentiment, question mark, generic:
\* its result is what the first rule whose condition holds produces, and no
\* later rule contributes.
C12_RulePriority ==
    fb_text # None
    => /\ get_smart_fallback(fb_text) \subseteq RuleOutputs(FirstRule(fb_text), fb_text)
       /\ fb_out # None => fb_out \in RuleOutputs(FirstRule(fb_text), fb_text)

\* a text with "i need" and "bad" gets the request-phrase form, "bad" kept
C12_Witness ==
    /\ fb_text = <<"I"," ","n","e","e","d","b","a","d">>
    /\ fb_out = <<"I"," ","w","o","u","l","d"," ","l","i","k","e"," ","t","o"," ","r","e","q","u","e","s","t"," ","b","a","d",".">>

\* C13: for a text that reaches the prefix rule, get_smart_fallback returns
\* the replacement of the matching prefix, a space, the original-cased text
\* that follows the prefix in the text, trimmed, and a full stop; also when the
\* text has leading whitespace or mixed case.
C13_PrefixRemainder ==
    (fb_text # None /\ fb_out # None /\ FirstRule(fb_text) = 3)
    => \E i \in PrefixKeys(fb_text) :
          fb_out = INFO_FALLBACKS[i].replacement \o <<" ">>
                     \o Strip(Drop(LStrip(fb_text), Len(INFO_FALLBACKS[i].prefix)))
                     \o <<".">>

\* C14: cache entries are never evicted.  A key of RESPONSE_CACHE is a key of
\* RESPONSE_CACHE in every later state.
C14_NoEviction ==
    [][DOMAIN RESPONSE_CACHE \subseteq DOMAIN RESPONSE_CACHE']_vars

\* two keys are cached: the second was stored with the first in place
C14_Witness ==
    /\ <<>> \in DOMAIN last.cache_before
    /\ last.text = <<"O","K","?">>
    /\ DOMAIN RESPONSE_CACHE = {<<>>, <<"o","k","?">>}

\* C15: for a text that is not an exact key and partially matches some keys,
\* get_smart_fallback returns an alternative of the first such key in the
\* table's order, never one of a later matching key.
C15_FirstPartialKey ==
    (fb_text # None /\ FirstRule(fb_text) = 2)
    => \A i \in PartialKeys(fb_text) :
          IF \A j \in PartialKeys(fb_text) : i <= j
          THEN /\ get_smart_fallback(fb_text) \subseteq Alternatives(i)
               /\ fb_out # None => fb_out \in Alternatives(i)
          ELSE /\ get_smart_fallback(fb_text) \cap Alternatives(i) = {}
               /\ fb_out \notin Alternatives(i)

\* "this is stupid" comes before "i quit" in the table
C15_Witness ==
    /\ fb_text = <<"i"," ","q","u","i","t","t","h","i","s"," ","i","s"," ","s","t","u","p","i","d">>
    /\ fb_out = <<"I"," ","b","e","l","i","e","v","e"," ","t","h","i","s"," ","a","p","p","r","o","a","c","h"," ","c","o","u","l","d"," ","b","e"," ","r","e","c","o","n","s","i","d","e","r","e","d",".">>

\* C16: a resolve answered from the cache is terminal.  When the lookup of
\* call_gemini_api gives a non-empty text, the call returns that text, calls
\* neither remote model nor get_smart_fallback, and leaves RESPONSE_CACHE
\* unchanged.
C16_CacheHitTerminal ==
    [][(/\ pc = "prompt"
        /\ n_calls' = n_calls + 1
        /\ Truthy(get_cached_response(lru, RESPONSE_CACHE, casual_text')))
       => (/\ pc' = "prompt"
           /\ last'.source = "cache"
           /\ last'.result = get_cached_response(lru, RESPONSE_CACHE, casual_text')
           /\ last'.invoked = <<>>
           /\ last'.branch = "plain"
           /\ RESPONSE_CACHE' = RESPONSE_CACHE)]_vars

C16_Witness ==
    /\ pc = "prompt"
    /\ last.source = "cache"
    /\ last.text = <<"O","K","?">>
    /\ last.result = <<"X">>
    /\ RESPONSE_CACHE = last.cache_before

\* the texts main can pass to call_gemini_api
CoreTexts ==
    {process_user_input(l) :
        l \in {x \in Lines : Truthy(x) /\ Lower(x) \notin ExitWords \cup {<<"d","e","b","u","g">>}}}

\* C17: lookup coherence.  In every state and for every text, the memoized
\* get_cached_response(text) returns RESPONSE_CACHE.get(lowercase+trim of
\* text): never None while the entry exists, never a value the entry no
\* longer holds.
C17_LookupCoherence ==
    \A t \in CoreTexts :
        get_cached_response(lru, RESPONSE_CACHE, t)
            = dict_get(RESPONSE_CACHE, Strip(Lower(t)))

\* C18: answer stability.  The value stored under a key of RESPONSE_CACHE is
\* never overwritten, so later resolves of texts with that normalization keep
\* returning it.
C18_AnswerStability ==
    [][\A k \in DOMAIN RESPONSE_CACHE :
          /\ k \in DOMAIN RESPONSE_CACHE'
          /\ RESPONSE_CACHE'[k] = RESPONSE_CACHE[k]]_vars

\* C19: cache well-formedness.  Every key of RESPONSE_CACHE equals its own
\* lowercase+trim and every value is a non-empty string.
C19_CacheWellFormed ==
    \A k \in DOMAIN RESPONSE_CACHE :
        /\ Strip(Lower(k)) = k
        /\ RESPONSE_CACHE[k] \notin {None, Raise, <<>>}
        /\ \A i \in 1..Len(RESPONSE_CACHE[k]) : Len(RESPONSE_CACHE[k][i]) = 1

\* an entry stored by a resolve of an upper-case text
C19_Witness ==
    /\ <<"o","k","?">> \in DOMAIN RESPONSE_CACHE
    /\ writer[<<"o","k","?">>] = <<"O","K","?">>
    /\ RESPONSE_CACHE[<<"o","k","?">>] = <<"Y">>

====
